---- MODULE Spec2Model ----
(***************************************************************************)
(* The family tracker app, screen by screen:                               *)
(*   Spec        the ChildTracking screen (startTracking, stopTracking,    *)
(*               syncAllData and its three domain syncs, logout) and the   *)
(*               background location task the OS fires;                    *)
(*   SetupSpec   the index screen and handleRegister;                      *)
(*   PairSpec    the pair-device screen and its pairing code;              *)
(*   ParentSpec  the parent's dashboard, contacts and gallery screens;     *)
(*   OverlapSpec the handlers of the ChildTracking screen and the firings  *)
(*               of the background task, overlapping at their awaits.      *)
(* They share the persisted store, the OS task registry and the backend.   *)
(*                                                                         *)
(* Every async function is a small process: one step per `await`.  The     *)
(* answer of the OS, the sensor or the network to an awaited call is the   *)
(* parameter of the step.  An awaited call that throws has no effect on    *)
(* the collaborator it was made to.                                        *)
(***************************************************************************)
EXTENDS Naturals, Sequences, FiniteSets

\* ------------------------------------------------------------------ bounds
MaxOps == 2        \* button presses, task firings and arrivals at the backend

\* --------------------------------------------------------------- constants
LOCATION_TASK_NAME == "background-location-task"
MediaFirst == 1000

NoValue == "undefined"      \* an absent string (JS undefined / null)
None == << >>               \* an absent array or object
Some(x) == << x >>          \* a present array or object
Throw == "throw"            \* an awaited call rejected

DeviceIds == {"device_1"}
PermStatuses == {"granted", "denied", "undetermined"}
PermOutcomes == PermStatuses \cup {Throw}
Domains == {"contacts", "media", "location"}
SyncCallers == {"start", "manual"}

\* ------------------------------------------------------------- device data
RawContacts ==
  { [id |-> "c1", name |-> NoValue, phoneNumbers |-> None,
     emails |-> Some(<< [email |-> "a@x.org"] >>)],
    [id |-> "c2", name |-> "Ann",
     phoneNumbers |-> Some(<< [number |-> "555"], [number |-> NoValue] >>),
     emails |-> None],
    [id |-> "c3", name |-> "", phoneNumbers |-> Some(<< >>),
     emails |-> Some(<< [email |-> NoValue] >>)] }

RawAssets ==
  { [id |-> "m1", filename |-> "IMG_1.jpg", mediaType |-> "photo",
     creationTime |-> 2, modificationTime |-> 2, width |-> 4, height |-> 3,
     duration |-> 0,
     location |-> Some([latitude |-> 0, longitude |-> 7, altitude |-> 1])],
    [id |-> "m2", filename |-> "VID_2.mp4", mediaType |-> "video",
     creationTime |-> 1, modificationTime |-> 3, width |-> 4, height |-> 3,
     duration |-> 9, location |-> None],
    [id |-> "m3", filename |-> "IMG_3.jpg", mediaType |-> "photo",
     creationTime |-> 3, modificationTime |-> 3, width |-> 4, height |-> 3,
     duration |-> 0,
     location |-> Some([latitude |-> 5, longitude |-> 6, altitude |-> 1])],
    [id |-> "m4", filename |-> "IMG_4.jpg", mediaType |-> "photo",
     creationTime |-> 0, modificationTime |-> 1, width |-> 4, height |-> 3,
     duration |-> 0,
     location |-> Some([latitude |-> 4, longitude |-> 0, altitude |-> 1])] }

Fixes ==
  { [coords |-> [latitude |-> 1, longitude |-> 2, accuracy |-> 5,
                 speed |-> 0, heading |-> 0]],
    [coords |-> [latitude |-> 3, longitude |-> 4, accuracy |-> 9,
                 speed |-> 1, heading |-> 90]] }

\* the sequences that list every element of S once
Listings(S) ==
  { s \in [1..Cardinality(S) -> S] :
      \A i, j \in 1..Cardinality(S) : s[i] = s[j] => i = j }

\* the address books a device is tried with: none, or the three contacts
ContactBooks ==
  { << >>,
    CHOOSE s \in Listings(RawContacts) :
      s[1].id = "c1" /\ s[2].id = "c2" }

\* its media libraries, most recent creation time first (the order the
\* media index returns for sortBy creationTime): none, or all the assets
MediaLibraries ==
  { << >>,
    CHOOSE s \in Listings(RawAssets) :
      \A i \in 1..(Len(s) - 1) : s[i].creationTime >= s[i + 1].creationTime }

\* --------------------------------------------------------------- variables
VARIABLES
  storage,        \* AsyncStorage: the persisted key-value store
  registry,       \* the OS task manager's registered task names
  contactBook,    \* the device's address book
  mediaLibrary,   \* the device's media index
  backend,        \* per device id: contacts snapshot, media snapshot, locations
  isTracking,     \* ChildTracking state: isTracking
  locationEnabled,\* ChildTracking state: locationEnabled
  lastSync,       \* ChildTracking state: lastSync
  clock,          \* events so far (the time new Date() reads)
  mounted,        \* the ChildTracking screen is on display
  ck,             \* checkTrackingStatus of the mount effect: pending or not
  st,             \* the startTracking invocation
  sp,             \* the stopTracking invocation
  sy,             \* the syncAllData invocations, by caller
  lo,             \* the logout confirmation's onPress
  prev,           \* the last tracking handler that returned, and how
  runs,           \* the last two completed syncAllData runs, latest first
  bg,             \* the background location task's firing in progress
  devices,        \* the backend's registered devices, in registration order
  su,             \* the setup (index) screen: route and form state
  hr,             \* the handleRegister invocation, latest
  pair,           \* the pair-device screen
  pa              \* the parent screen on display and its handlers

vars == << storage, registry, contactBook, mediaLibrary, backend, isTracking,
           locationEnabled, lastSync, clock, mounted, ck, st, sp, sy,
           lo, prev, runs, bg, devices, su, hr, pair, pa >>

dataVars == << contactBook, mediaLibrary >>
screenVars == << isTracking, locationEnabled, lastSync, mounted, ck >>

\* what the handlers of the ChildTracking screen never touch
restVars == << bg, devices, su, hr, pair, pa >>

\* the ChildTracking screen, its handlers and the device they run on
trackVars == << registry, contactBook, mediaLibrary, isTracking,
                locationEnabled, lastSync, mounted, ck, st, sp, sy, lo, prev,
                runs, bg >>

\* ------------------------------------------------------------ pure helpers
Min(a, b) == IF a < b THEN a ELSE b

\* `status !== 'granted'` is the test of every permission gate
GrantedLoose(status) == status # "denied"
Granted(status) == status = "granted"

\* x || dflt
OrElseStrict(x, dflt) == IF x = "" THEN dflt ELSE x
OrElse(x, dflt) == IF x = NoValue \/ x = "" THEN dflt ELSE x

MapSeq(s, F(_)) == [i \in 1..Len(s) |-> F(s[i])]

PhoneNumber(p) == OrElse(p.number, "")
EmailAddress(e) == OrElse(e.email, "")

\* contact.phoneNumbers?.map(...) || []
PhoneNumbers(contact) ==
  IF contact.phoneNumbers = None THEN << >>
  ELSE MapSeq(contact.phoneNumbers[1], PhoneNumber)

Emails(contact) ==
  IF contact.emails = None THEN << >>
  ELSE MapSeq(contact.emails[1], EmailAddress)

MapContact(contact) ==
  [id |-> contact.id,
   name |-> OrElse(contact.name, "Unknown"),
   phoneNumbers |-> PhoneNumbers(contact),
   emails |-> Emails(contact)]

MapAsset(asset) ==
  [id |-> asset.id,
   filename |-> asset.filename,
   mediaType |-> asset.mediaType,
   creationTime |-> asset.creationTime,
   modificationTime |-> asset.modificationTime,
   width |-> asset.width,
   height |-> asset.height,
   duration |-> asset.duration,
   location |-> IF asset.location = None THEN None
                ELSE Some([latitude |-> asset.location[1].latitude,
                           longitude |-> asset.location[1].longitude])]

\* MediaLibrary.getAssetsAsync({first, sortBy: creationTime}).assets
GetAssets(library, first) == SubSeq(library, 1, Min(Len(library), first))

LocationBody(deviceId, location) ==
  [device_id |-> deviceId,
   latitude |-> location.coords.latitude,
   longitude |-> location.coords.longitude,
   accuracy |-> location.coords.accuracy,
   speed |-> location.coords.speed,
   heading |-> location.coords.heading]

\* ----------------------------------------------------------------- backend
BackendInit ==
  [d \in DeviceIds |->
     [contacts |-> None, media |-> None, locations |-> << >>]]

\* POST /api/contacts/batch: the batch replaces the device's snapshot
PostContactsBatch(b, body) ==
  [b EXCEPT ![body.device_id].contacts = Some(body.contacts)]

\* POST /api/media/batch: the batch replaces the device's snapshot
PostMediaBatch(b, body) ==
  [b EXCEPT ![body.device_id].media = Some(body.media_items)]

\* POST /api/locations: one more sample at the end of the device's history
PostLocationLatest(b, body) ==
  [b EXCEPT ![body.device_id].locations = << body >>]
PostLocation(b, body) ==
  [b EXCEPT ![body.device_id].locations = Append(@, body)]

\* a row of GET /api/contacts/{deviceId}, as the parent's Contact interface
\* names its fields
ContactRow(c) ==
  [contact_id |-> c.id, name |-> c.name,
   phone_numbers |-> c.phoneNumbers, emails |-> c.emails]

\* GET /api/contacts/{deviceId}: the device's snapshot as last uploaded
GetContacts(b, id) ==
  IF b[id].contacts = None THEN << >>
  ELSE MapSeq(b[id].contacts[1], ContactRow)

\* ------------------------------------------------------------------- state
StorageKeys == {"device_id", "device_name", "device_mode", "parent_device_id"}

StorageEmpty == [k \in StorageKeys |-> NoValue]

\* the store as the setup screen leaves it for a child device
StorageChild(id) ==
  [k \in StorageKeys |->
     CASE k = "device_id" -> id
       [] k = "device_name" -> "Phone"
       [] k = "device_mode" -> "child"
       [] OTHER -> "parent_1"]

StIdle ==
  [pc |-> "idle", regBefore |-> FALSE, fg |-> "none", bg |-> "none",
   threw |-> FALSE,
   regCalls |-> 0, regOutcome |-> "none", syncs |-> 0,
   alerts |-> << >>, raised |-> FALSE]

SpIdle ==
  [pc |-> "idle", caller |-> "none", regBefore |-> FALSE, threw |-> FALSE,
   deregCalls |-> 0, alerts |-> << >>, raised |-> FALSE]

SyIdle ==
  [pc |-> "idle", deviceId |-> NoValue,
   env |-> [d \in Domains |-> "none"],
   outcome |-> [d \in Domains |-> "none"],
   posts |-> [d \in Domains |-> 0],
   before |-> BackendInit,
   stamps |-> 0,
   body |-> << >>, log |-> << >>, reg |-> << >>, inflight |-> {},
   alerts |-> << >>, raised |-> FALSE]

\* the index screen right after mount, with the default device name
SuFresh(modelName) ==
  [route |-> "index", selectedMode |-> NoValue,
   deviceName |-> OrElse(modelName, "Unknown Device"),
   parentDeviceId |-> "", registering |-> FALSE]

\* the index screen is not on display
SuAway == [SuFresh(NoValue) EXCEPT !.route = "away"]

HrIdle ==
  [pc |-> "idle", mode |-> NoValue, name |-> "", parent |-> "",
   before |-> StorageEmpty, devicesBefore |-> << >>,
   deviceId |-> NoValue, idWrites |-> 0, requests |-> << >>,
   response |-> "none", alerts |-> << >>,
   prevId |-> NoValue, prevFailed |-> FALSE, firstId |-> NoValue]

\* loadData, the child fetch and onRefresh of a parent screen: not called
LdIdle == [pc |-> "idle", by |-> "none", selected |-> None, raised |-> FALSE]
LcIdle == [pc |-> "idle", by |-> "none", childId |-> NoValue, raised |-> FALSE]
RfIdle ==
  [pc |-> "idle", selected |-> None, childrenFetch |-> "none",
   childFetch |-> "none", raised |-> FALSE]

\* the per-child data a parent screen keeps in its state
DataKinds == {"current", "history", "contacts", "media"}

\* a parent screen right after mount: the mount effect has called loadData;
\* `of` is the child whose response filled each piece of data
PaFresh(screen) ==
  [screen |-> screen, children |-> << >>, selectedChild |-> None,
   current |-> None, history |-> << >>, contacts |-> << >>, media |-> << >>,
   of |-> [k \in DataKinds |-> NoValue],
   refreshing |-> FALSE, loading |-> TRUE, effectDue |-> FALSE, gen |-> 0,
   sortBy |-> "date",
   ld |-> [LdIdle EXCEPT !.pc = "getId", !.by = "mount"],
   lc |-> LcIdle, rf |-> RfIdle, requests |-> << >>, alerts |-> << >>]

\* no parent screen is on display
PaAway ==
  [PaFresh("dashboard") EXCEPT !.screen = "none", !.ld = LdIdle,
                               !.loading = FALSE]

\* the pair-device screen right after mount
PairFresh ==
  [shown |-> TRUE, pc |-> "getId", deviceId |-> "", pairingCode |-> "",
   clipboard |-> "", shared |-> << >>, prevCode |-> ""]

\* the pair-device screen is not on display
PairAway == [PairFresh EXCEPT !.shown = FALSE, !.pc = "idle"]

\* no firing of the background task is in progress
BgIdle ==
  [pc |-> "idle", error |-> FALSE, locations |-> << >>, read |-> FALSE,
   deviceId |-> NoValue, posts |-> 0, body |-> << >>, logged |-> << >>,
   failed |-> FALSE, raised |-> FALSE,
   before |-> BackendInit, storeBefore |-> StorageEmpty]

Init ==
  /\ storage \in {StorageEmpty} \cup {StorageChild(id) : id \in DeviceIds}
  /\ registry \in SUBSET {LOCATION_TASK_NAME}
  /\ contactBook \in ContactBooks
  /\ mediaLibrary \in MediaLibraries
  /\ backend = BackendInit
  /\ isTracking = FALSE
  /\ locationEnabled = FALSE
  /\ lastSync = 0
  /\ clock = 0
  /\ mounted = TRUE
  /\ ck = "pending"
  /\ st = StIdle
  /\ sp = SpIdle
  /\ sy = [c \in SyncCallers |-> SyIdle]
  /\ lo = "idle"
  /\ prev = << "none", FALSE >>
  /\ runs = << >>
  /\ bg = BgIdle
  /\ devices = << >>
  /\ su = SuAway
  /\ hr = HrIdle
  /\ pair = PairAway
  /\ pa = PaAway

\* no handler of the screen is between its call and its return
Idle ==
  /\ st.pc = "idle"
  /\ sp.pc = "idle"
  /\ \A c \in SyncCallers : sy[c].pc = "idle"
  /\ lo = "idle"
  /\ bg.pc = "idle"

\* TrackingController.status()
IsTaskRegistered(reg) == LOCATION_TASK_NAME \in reg

Shown(alerts, a) == \E i \in 1..Len(alerts) : alerts[i] = a

\* ----------------------------------------------- mount, OS and device data
\* the app is reopened on a set-up child device: the index screen routes to
\* the tracking screen, whose state starts afresh and whose mount effect
\* calls checkTrackingStatus
ChildTrackingMount ==
  /\ mounted
  /\ storage["device_id"] # NoValue
  /\ storage["device_mode"] = "child"
  /\ ck = "idle"
  /\ isTracking' = FALSE
  /\ locationEnabled' = FALSE
  /\ lastSync' = 0
  /\ ck' = "pending"
  /\ UNCHANGED << storage, registry, backend, clock, mounted, st, sp, sy, lo,
                  prev, runs, dataVars, restVars >>

\* isTaskRegisteredAsync answers the mount effect's query
checkTrackingStatus(r) ==
  /\ ck = "pending"
  /\ ck' = "idle"
  /\ isTracking' = IF r = Throw THEN isTracking ELSE IsTaskRegistered(registry)
  /\ UNCHANGED << storage, registry, backend, locationEnabled, lastSync,
                  clock, mounted, st, sp, sy, lo, prev, runs, dataVars, restVars >>

\* the OS ends the background task on its own
OSRemovesTask ==
  /\ IsTaskRegistered(registry)
  /\ registry' = registry \ {LOCATION_TASK_NAME}
  /\ UNCHANGED << storage, backend, clock, st, sp, sy, lo, prev, runs,
                  dataVars, restVars, screenVars >>

\* ----------------------------------------------------------- startTracking
\* the task name startLocationUpdatesAsync is given
StartTaskNameFresh ==
  IF registry = {} THEN LOCATION_TASK_NAME ELSE "background-location-task-2"
StartTaskName == LOCATION_TASK_NAME

\* the try/catch of requestPermissions and of startTracking
StartRethrows == FALSE
StartCatches == TRUE

\* syncAllData is called: it runs up to its read of the device id
SyCalled == [SyIdle EXCEPT !.pc = "readId"]

\* `await syncAllData()` after the registration, inside the try
InitialSyncNone == SyIdle
InitialSync == SyCalled

\* a refusal of the contacts or media permission is alerted; no return
\* follows the alert
RefusalReturnsWhenDenied(status) == status # "granted"
RefusalReturns(status) == FALSE

\* the Start Tracking button, shown while isTracking is false
StartPress ==
  /\ mounted
  /\ ~isTracking
  /\ clock < MaxOps
  /\ clock' = clock + 1
  /\ st' = [StIdle EXCEPT !.pc = "reqFg",
                          !.regBefore = IsTaskRegistered(registry)]
  /\ UNCHANGED << storage, registry, backend, sp, sy, lo, prev, runs,
                  dataVars, restVars, screenVars >>

StartFrame ==
  UNCHANGED << storage, registry, backend, clock, sp, sy, lo, prev, runs,
               dataVars, restVars, isTracking, lastSync, mounted, ck >>

\* a permission request of requestPermissions rejected
PermissionThrown(s) ==
  [s EXCEPT !.pc = "done", !.threw = TRUE, !.raised = ~StartCatches]

requestForeground(a) ==
  /\ st.pc = "reqFg"
  /\ st' = IF a = Throw THEN PermissionThrown([st EXCEPT !.fg = a])
           ELSE IF ~Granted(a)
             THEN [st EXCEPT !.pc = "done", !.fg = a,
                             !.alerts = Append(@, "PermissionDenied")]
             ELSE [st EXCEPT !.pc = "reqBg", !.fg = a]
  /\ UNCHANGED locationEnabled
  /\ StartFrame

requestBackground(a) ==
  /\ st.pc = "reqBg"
  /\ st' = IF a = Throw THEN PermissionThrown([st EXCEPT !.bg = a])
           ELSE IF ~Granted(a)
             THEN [st EXCEPT !.pc = "done", !.bg = a,
                             !.alerts = Append(@, "BackgroundPermission")]
             ELSE [st EXCEPT !.pc = "reqContacts", !.bg = a]
  /\ UNCHANGED locationEnabled
  /\ StartFrame

requestContacts(a) ==
  /\ st.pc = "reqContacts"
  /\ st' = IF a = Throw THEN PermissionThrown(st)
           ELSE IF RefusalReturns(a)
             THEN [st EXCEPT !.pc = "done",
                             !.alerts = Append(@, "ContactsDenied")]
             ELSE [st EXCEPT !.pc = "reqMedia",
                             !.alerts = IF Granted(a) THEN @
                                        ELSE Append(@, "ContactsDenied")]
  /\ UNCHANGED locationEnabled
  /\ StartFrame

requestMedia(a) ==
  /\ st.pc = "reqMedia"
  /\ st' = IF a = Throw THEN PermissionThrown(st)
           ELSE IF RefusalReturns(a)
             THEN [st EXCEPT !.pc = "done",
                             !.alerts = Append(@, "MediaDenied")]
             ELSE [st EXCEPT !.pc = "register",
                             !.regCalls = @ + 1,
                             !.alerts = IF Granted(a) THEN @
                                        ELSE Append(@, "MediaDenied")]
  /\ locationEnabled' = IF a = Throw \/ RefusalReturns(a)
                          THEN locationEnabled ELSE mounted
  /\ StartFrame

\* startLocationUpdatesAsync answers; on success the initial sync is called
startLocationUpdates(r) ==
  /\ st.pc = "register"
  /\ IF r = Throw
       THEN /\ st' = [st EXCEPT !.pc = "done", !.regOutcome = Throw,
                                !.threw = TRUE, !.raised = ~StartCatches,
                                !.alerts = IF StartCatches
                                           THEN Append(@, "StartError")
                                           ELSE @]
            /\ UNCHANGED << registry, isTracking, sy >>
       ELSE /\ registry' = registry \cup {StartTaskName}
            /\ isTracking' = mounted
            /\ st' = [st EXCEPT !.pc = "sync", !.regOutcome = "ok",
                                !.syncs = @ + 1,
                                !.alerts = Append(@, "TrackingStarted")]
            /\ sy' = [sy EXCEPT !["start"] = InitialSync]
  /\ UNCHANGED << storage, backend, clock, sp, lo, prev, runs, dataVars, restVars,
                  locationEnabled, lastSync, mounted, ck >>

\* the initial sync has returned to startTracking
StartAfterSync ==
  /\ st.pc = "sync"
  /\ sy["start"].pc = "done"
  /\ st' = IF sy["start"].raised
           THEN [st EXCEPT !.pc = "done", !.threw = TRUE,
                           !.raised = ~StartCatches,
                           !.alerts = IF StartCatches
                                      THEN Append(@, "StartError") ELSE @]
           ELSE [st EXCEPT !.pc = "done"]
  /\ sy' = [sy EXCEPT !["start"] = SyIdle]
  /\ UNCHANGED << storage, registry, backend, clock, sp, lo, prev, runs,
                  dataVars, restVars, screenVars >>

StartReturn ==
  /\ st.pc = "done"
  /\ st' = StIdle
  /\ prev' = << "start", st.regOutcome = "ok" >>
  /\ UNCHANGED << storage, registry, backend, clock, sp, sy, lo, runs,
                  dataVars, restVars, screenVars >>

\* ------------------------------------------------------------ stopTracking
\* `if (isRegistered)` guards the deregistration call
StopDeregistersAlways(isRegistered) == TRUE
StopDeregisters(isRegistered) == isRegistered

\* the try/catch of stopTracking
StopRethrows == FALSE
StopCatches == TRUE

\* what stopTracking does to a run of syncAllData in progress: it holds no
\* reference to one
StopAborts(s) ==
  IF s.pc \in {"idle", "done"} THEN s
  ELSE [s EXCEPT !.pc = "done", !.inflight = {}]
StopLeaves(s) == s

SpCalled(caller) ==
  [SpIdle EXCEPT !.pc = "query", !.caller = caller,
                 !.regBefore = IsTaskRegistered(registry)]

\* the Stop Tracking button, shown while isTracking is true
StopPress ==
  /\ mounted
  /\ ck = "idle"
  /\ isTracking
  /\ clock < MaxOps
  /\ clock' = clock + 1
  /\ sp' = SpCalled("button")
  /\ UNCHANGED << storage, registry, backend, st, sy, lo, prev, runs,
                  dataVars, restVars, screenVars >>

StopThrown(s) ==
  [s EXCEPT !.pc = "done", !.threw = TRUE, !.raised = ~StopCatches]

StopCompleted(s) ==
  [s EXCEPT !.pc = "done", !.alerts = Append(@, "TrackingStopped")]

\* isTaskRegisteredAsync answers stopTracking's query
stopQuery(r) ==
  /\ sp.pc = "query"
  /\ IF r = Throw
       THEN /\ sp' = StopThrown(sp)
            /\ UNCHANGED isTracking
       ELSE IF StopDeregisters(IsTaskRegistered(registry))
         THEN /\ sp' = [sp EXCEPT !.pc = "dereg", !.deregCalls = @ + 1]
              /\ UNCHANGED isTracking
         ELSE /\ sp' = StopCompleted(sp)
              /\ isTracking' = FALSE
  /\ UNCHANGED << storage, registry, backend, clock, st, sy, lo, prev, runs,
                  dataVars, restVars, locationEnabled, lastSync, mounted, ck >>

\* stopLocationUpdatesAsync answers
stopLocationUpdates(r) ==
  /\ sp.pc = "dereg"
  /\ IF r = Throw
       THEN /\ sp' = StopThrown(sp)
            /\ UNCHANGED << registry, isTracking >>
       ELSE /\ registry' = registry \ {LOCATION_TASK_NAME}
            /\ sp' = StopCompleted(sp)
            /\ isTracking' = FALSE
  /\ sy' = [c \in SyncCallers |-> StopLeaves(sy[c])]
  /\ UNCHANGED << storage, backend, clock, st, lo, prev, runs,
                  dataVars, restVars, locationEnabled, lastSync, mounted, ck >>

StopReturn ==
  /\ sp.pc = "done"
  /\ sp.caller = "button"
  /\ sp' = SpIdle
  /\ prev' = << "stop", ~IsTaskRegistered(registry) >>
  /\ UNCHANGED << storage, registry, backend, clock, st, sy, lo, runs,
                  dataVars, restVars, screenVars >>

\* ------------------------------------------------------------ handleLogout
\* the Logout button of the confirmation: stopTracking is called first
LogoutPress ==
  /\ mounted
  /\ ck = "idle"
  /\ clock < MaxOps
  /\ clock' = clock + 1
  /\ lo' = "stop"
  /\ sp' = SpCalled("logout")
  /\ UNCHANGED << storage, registry, backend, st, sy, prev, runs, dataVars, restVars,
                  screenVars >>

\* stopTracking has returned to onPress, which calls AsyncStorage.clear
LogoutAfterStop ==
  /\ lo = "stop"
  /\ sp.pc = "done"
  /\ sp.caller = "logout"
  /\ lo' = IF sp.raised THEN "idle" ELSE "clear"
  /\ sp' = SpIdle
  /\ prev' = << "stop", ~IsTaskRegistered(registry) >>
  /\ UNCHANGED << storage, registry, backend, clock, st, sy, runs, dataVars, restVars,
                  screenVars >>

\* the store is cleared and the router replaces the screen by the index
LogoutCleared ==
  /\ lo = "clear"
  /\ lo' = "idle"
  /\ storage' = StorageEmpty
  /\ mounted' = FALSE
  /\ ck' = "idle"
  /\ prev' = << "logout", TRUE >>
  /\ UNCHANGED << registry, backend, clock, st, sp, sy, runs, dataVars, restVars,
                  isTracking, locationEnabled, lastSync >>

\* ------------------------------------------------------------- syncAllData
\* the order in which syncAllData awaits the domain syncs
SyncOrderLocationFirst == << "location", "contacts", "media" >>
SyncOrder == << "contacts", "media", "location" >>

\* the domain syncs whose body is wrapped in its own try/catch
DomainCatchesButContacts(d) == d # "contacts"
DomainCatches(d) == d \in {"contacts", "media", "location"}

IndexOf(d) == CHOOSE i \in 1..Len(SyncOrder) : SyncOrder[i] = d

FirstPc(d) ==
  CASE d = "contacts" -> "contactsPerm"
    [] d = "media" -> "mediaPerm"
    [] d = "location" -> "locationFix"

\* a domain sync is called: it runs up to its first await
BeginDomain(s, d) ==
  [s EXCEPT !.pc = FirstPc(d), !.log = Append(@, << d, "begin" >>),
            !.reg = Append(@, IsTaskRegistered(registry))]

\* setLastSync(new Date()) and the success alert end the run
FinishSync(s) ==
  [s EXCEPT !.pc = "done", !.stamps = @ + 1,
            !.alerts = Append(@, "SyncSuccess")]

\* a domain sync returns (how: uploaded, skipped) or throws (how: failed);
\* its caller goes on with the next domain, or ends in its own catch
EndDomain(s, d, how) ==
  LET ended == [s EXCEPT !.outcome[d] = how,
                         !.inflight = @ \ {d},
                         !.body = << >>,
                         !.log = Append(@, << d, "end" >>),
                         !.reg = Append(@, IsTaskRegistered(registry))]
  IN IF how = "failed" /\ ~DomainCatches(d)
       THEN [ended EXCEPT !.pc = "done", !.alerts = Append(@, "SyncError")]
       ELSE IF IndexOf(d) < Len(SyncOrder)
         THEN BeginDomain(ended, SyncOrder[IndexOf(d) + 1])
         ELSE FinishSync(ended)

\* the request of a domain goes out
SendPost(s, d, nextPc, body) ==
  [s EXCEPT !.pc = nextPc, !.body = Some(body),
            !.posts[d] = @ + 1,
            !.inflight = @ \cup {d},
            !.log = Append(@, << d, "post" >>),
            !.reg = Append(@, IsTaskRegistered(registry))]

\* what the OS, the sensor or the network answered to domain d so far:
\* "denied" once the permission status was other than granted, "throw" for
\* a rejected call, "ok" otherwise
Answered(s, d, a) ==
  [s EXCEPT !.env[d] = IF @ = "denied" THEN @
                       ELSE IF a = Throw THEN "throw"
                       ELSE IF a \in PermStatuses \ {"granted"} THEN "denied"
                       ELSE "ok"]

\* a run that uploaded all three domains: the device data it read, and the
\* backend before and after it
RunSummary(s, b) ==
  [contacts |-> contactBook, media |-> mediaLibrary,
   before |-> s.before, after |-> b]

\* the body of POST /api/contacts/batch
ContactsBodyOnce(deviceId, data) ==
  [device_id |-> deviceId,
   contacts |-> IF lastSync = 0 THEN MapSeq(data, MapContact) ELSE << >>]
ContactsBody(deviceId, data) ==
  [device_id |-> deviceId, contacts |-> MapSeq(data, MapContact)]

\* the body of POST /api/media/batch
MediaBody(deviceId, assets) ==
  [device_id |-> deviceId, media_items |-> MapSeq(assets, MapAsset)]

\* one step of the run of caller c, to record s2 and backend b2
SyncStep(c, s2, b2) ==
  /\ sy' = [sy EXCEPT ![c] = s2]
  /\ backend' = b2
  /\ lastSync' = IF s2.stamps > sy[c].stamps /\ mounted
                 THEN clock ELSE lastSync
  /\ runs' = IF s2.pc # "done" \/ s2.deviceId = NoValue THEN runs
             ELSE IF \A d \in Domains : s2.outcome[d] = "uploaded"
               THEN << RunSummary(s2, b2) >> \o SubSeq(runs, 1, Min(1, Len(runs)))
               ELSE << >>
  /\ UNCHANGED << storage, registry, clock, st, sp, lo, prev, dataVars, restVars,
                  isTracking, locationEnabled, mounted, ck >>

\* `if (!deviceId) return`
NoDeviceIdNever(id) == FALSE
NoDeviceId(id) == id = NoValue \/ id = ""

\* the Sync All Data Now button
SyncPress ==
  /\ mounted
  /\ ck = "idle"
  /\ clock < MaxOps
  /\ clock' = clock + 1
  /\ sy' = [sy EXCEPT !["manual"] = SyCalled]
  /\ UNCHANGED << storage, registry, backend, st, sp, lo, prev, runs,
                  dataVars, restVars, screenVars >>

\* AsyncStorage.getItem('device_id') answers
syncAllData(c) ==
  /\ sy[c].pc = "readId"
  /\ LET id == storage["device_id"]
     IN IF NoDeviceId(id)
          THEN SyncStep(c, [sy[c] EXCEPT !.pc = "done"], backend)
          ELSE SyncStep(c, BeginDomain([sy[c] EXCEPT !.deviceId = id,
                                                    !.before = backend],
                                       SyncOrder[1]),
                        backend)

\* Contacts.getPermissionsAsync answers
syncContactsPermission(c, a) ==
  /\ sy[c].pc = "contactsPerm"
  /\ LET s == Answered(sy[c], "contacts", a)
     IN SyncStep(c,
          IF a = Throw THEN EndDomain(s, "contacts", "failed")
          ELSE IF ~Granted(a) THEN EndDomain(s, "contacts", "skipped")
          ELSE [s EXCEPT !.pc = "contactsRead"],
          backend)

\* Contacts.getContactsAsync answers; the batch is built and posted
syncContactsRead(c, r) ==
  /\ sy[c].pc = "contactsRead"
  /\ LET s == Answered(sy[c], "contacts", r)
     IN SyncStep(c,
          IF r = Throw THEN EndDomain(s, "contacts", "failed")
          ELSE SendPost(s, "contacts", "contactsPost",
                        ContactsBody(s.deviceId, contactBook)),
          backend)

\* POST /api/contacts/batch answers
syncContactsPost(c, r) ==
  /\ sy[c].pc = "contactsPost"
  /\ LET s == Answered(sy[c], "contacts", r)
     IN IF r = Throw
          THEN SyncStep(c, EndDomain(s, "contacts", "failed"), backend)
          ELSE SyncStep(c, EndDomain(s, "contacts", "uploaded"),
                        PostContactsBatch(backend, s.body[1]))

\* MediaLibrary.getPermissionsAsync answers
syncGalleryPermission(c, a) ==
  /\ sy[c].pc = "mediaPerm"
  /\ LET s == Answered(sy[c], "media", a)
     IN SyncStep(c,
          IF a = Throw THEN EndDomain(s, "media", "failed")
          ELSE IF ~Granted(a) THEN EndDomain(s, "media", "skipped")
          ELSE [s EXCEPT !.pc = "mediaRead"],
          backend)

\* MediaLibrary.getAssetsAsync answers; the batch is built and posted
syncGalleryRead(c, r) ==
  /\ sy[c].pc = "mediaRead"
  /\ LET s == Answered(sy[c], "media", r)
     IN SyncStep(c,
          IF r = Throw THEN EndDomain(s, "media", "failed")
          ELSE SendPost(s, "media", "mediaPost",
                        MediaBody(s.deviceId,
                                  GetAssets(mediaLibrary, MediaFirst))),
          backend)

\* POST /api/media/batch answers
syncGalleryPost(c, r) ==
  /\ sy[c].pc = "mediaPost"
  /\ LET s == Answered(sy[c], "media", r)
     IN IF r = Throw
          THEN SyncStep(c, EndDomain(s, "media", "failed"), backend)
          ELSE SyncStep(c, EndDomain(s, "media", "uploaded"),
                        PostMediaBatch(backend, s.body[1]))

\* Location.getCurrentPositionAsync answers (a fix, or Throw); the sample
\* is posted
syncCurrentLocationFix(c, r) ==
  /\ sy[c].pc = "locationFix"
  /\ LET s == Answered(sy[c], "location", IF r = None THEN Throw ELSE "ok")
     IN SyncStep(c,
          IF r = None THEN EndDomain(s, "location", "failed")
          ELSE SendPost(s, "location", "locationPost",
                        LocationBody(s.deviceId, r[1])),
          backend)

\* POST /api/locations answers
syncCurrentLocationPost(c, r) ==
  /\ sy[c].pc = "locationPost"
  /\ LET s == Answered(sy[c], "location", r)
     IN IF r = Throw
          THEN SyncStep(c, EndDomain(s, "location", "failed"), backend)
          ELSE SyncStep(c, EndDomain(s, "location", "uploaded"),
                        PostLocation(backend, s.body[1]))

\* the manual run has returned to the button
SyncReturn ==
  /\ sy["manual"].pc = "done"
  /\ sy' = [sy EXCEPT !["manual"] = SyIdle]
  /\ prev' = << "sync", FALSE >>
  /\ UNCHANGED << storage, registry, backend, clock, st, sp, lo, runs,
                  dataVars, restVars, screenVars >>

\* ------------------------------------------------- background task handler
\* the batches of fixes a firing delivers: none, one, or two fixes
FixBatches ==
  { << >> } \cup { << f >> : f \in Fixes }
    \cup { b \in Listings(Fixes) : b[1].coords.latitude > b[2].coords.latitude }

\* what the OS hands to the handler: an error, or data with a batch
FiringInputs ==
  { [error |-> TRUE, locations |-> << >>] }
    \cup { [error |-> FALSE, locations |-> b] : b \in FixBatches }

\* locations[0]
FiringFixLast(locations) ==
  IF locations = << >> THEN None ELSE Some(locations[Len(locations)])
FiringFix(locations) ==
  IF locations = << >> THEN None ELSE Some(locations[1])

\* the try/catch around the handler's read and upload
FiringCatches == TRUE

BgFrame ==
  UNCHANGED << storage, registry, contactBook, mediaLibrary, isTracking,
               locationEnabled, lastSync, mounted, ck, st, sp, sy, lo, prev,
               runs, devices, su, hr, pair, pa >>

\* the OS fires the registered task; the handler runs up to its first await
TaskFires(input) ==
  /\ IsTaskRegistered(registry)
  /\ bg.pc = "idle"
  /\ clock < MaxOps
  /\ clock' = clock + 1
  /\ bg' = IF input.error
             THEN [BgIdle EXCEPT !.pc = "done", !.error = TRUE,
                                 !.before = backend, !.storeBefore = storage,
                                 !.logged = << "firingError" >>]
             ELSE [BgIdle EXCEPT !.pc = "readId",
                                 !.locations = input.locations,
                                 !.before = backend, !.storeBefore = storage]
  /\ UNCHANGED backend
  /\ BgFrame

\* a failure inside the try block: logged
FiringCaught(b) ==
  [b EXCEPT !.pc = "done", !.failed = TRUE, !.raised = ~FiringCatches,
            !.logged = IF FiringCatches THEN Append(@, "sendError") ELSE @]

\* AsyncStorage.getItem('device_id') answers the handler; with an id the
\* sample of the first fix is built and posted
backgroundReadId ==
  /\ bg.pc = "readId"
  /\ LET id == storage["device_id"]
         fix == FiringFix(bg.locations)
         b == [bg EXCEPT !.read = TRUE, !.deviceId = id]
     IN bg' = IF NoDeviceId(id) THEN [b EXCEPT !.pc = "done"]
              ELSE IF fix = None THEN FiringCaught(b)
              ELSE [b EXCEPT !.pc = "post", !.posts = @ + 1,
                             !.body = Some(LocationBody(id, fix[1]))]
  /\ UNCHANGED << backend, clock >>
  /\ BgFrame

\* POST /api/locations answers the handler
backgroundPost(r) ==
  /\ bg.pc = "post"
  /\ IF r = Throw
       THEN /\ bg' = FiringCaught(bg)
            /\ UNCHANGED backend
       ELSE /\ bg' = [bg EXCEPT !.pc = "done", !.logged = Append(@, "sent")]
            /\ backend' = PostLocation(backend, bg.body[1])
  /\ UNCHANGED clock
  /\ BgFrame

\* the handler's promise settles
BackgroundReturn ==
  /\ bg.pc = "done"
  /\ bg' = BgIdle
  /\ UNCHANGED << backend, clock >>
  /\ BgFrame

\* ------------------------------------------------------------ setup screen
\* Device.modelName, absent on some devices
ModelNames == {"Pixel", NoValue}

\* what the user types into the device name and parent id fields
DeviceNameTexts == {"", " ", "Kid phone"}
ParentIdTexts == {"", " ", " parent_1 "}

\* `device_${Date.now()}_${Math.random().toString(36).substr(2, 9)}` for a
\* clock reading and a random suffix, both already in digits
GenerateId(now, suffix) == "device_" \o now \o "_" \o suffix

\* the ids generated on the devices that are set up
GeneratedIds ==
  { GenerateId("1700000000000", "abc123xyz"),
    GenerateId("1700000000001", "k3") }

\* String.prototype.trim, for the space character
RECURSIVE TrimStart(_)
TrimStart(s) ==
  IF s # "" /\ SubSeq(s, 1, 1) = " "
    THEN TrimStart(SubSeq(s, 2, Len(s))) ELSE s

RECURSIVE TrimEnd(_)
TrimEnd(s) ==
  IF s # "" /\ SubSeq(s, Len(s), Len(s)) = " "
    THEN TrimEnd(SubSeq(s, 1, Len(s) - 1)) ELSE s

TrimNothing(s) == s
Trim(s) == TrimEnd(TrimStart(s))

\* !x for a string or null
Falsy(x) == x = NoValue \/ x = ""

\* `if (!deviceId)` before an id is generated
MissingIdAlways(id) == TRUE
MissingId(id) == Falsy(id)

\* `if (!response.ok)`, or the fetch rejecting
RegistrationFailedNever(r) == FALSE
RegistrationFailed(r) == r # "ok"

\* handleRegister is not between its call and its return
RegisterIdle == hr.pc \in {"idle", "done"}

\* where checkExistingSetup routes to
ExistingSetupRoute(store) ==
  IF ~Falsy(store["device_mode"]) /\ ~Falsy(store["device_id"])
    THEN IF store["device_mode"] = "parent" THEN "parent" ELSE "child"
    ELSE "index"

\* the body of POST /api/devices/register
RegisterBody(deviceId, name, mode, parent) ==
  [device_id |-> deviceId, device_name |-> name, mode |-> mode,
   parent_device_id |-> IF mode = "child" THEN Trim(parent) ELSE NoValue]

\* POST /api/devices/register: registers or updates a device
RegisterDevice(devs, body) ==
  IF \E i \in 1..Len(devs) : devs[i].device_id = body.device_id
    THEN [i \in 1..Len(devs) |->
            IF devs[i].device_id = body.device_id THEN body ELSE devs[i]]
    ELSE Append(devs, body)

SetupFrame == UNCHANGED << backend, pair, pa, trackVars >>

\* the app is opened: the index screen mounts with fresh state and
\* checkExistingSetup routes a device that is set up to its screen
IndexMount(modelName) ==
  /\ RegisterIdle
  /\ su' = [SuFresh(modelName) EXCEPT !.route = ExistingSetupRoute(storage)]
  /\ UNCHANGED << storage, devices, clock, hr >>
  /\ SetupFrame

\* the Parent / Child cards
SelectMode(m) ==
  /\ su.route = "index"
  /\ RegisterIdle
  /\ su' = [su EXCEPT !.selectedMode = m]
  /\ UNCHANGED << storage, devices, clock, hr >>
  /\ SetupFrame

\* the device name field
EnterDeviceName(t) ==
  /\ su.route = "index"
  /\ RegisterIdle
  /\ su' = [su EXCEPT !.deviceName = t]
  /\ UNCHANGED << storage, devices, clock, hr >>
  /\ SetupFrame

\* the parent device id field, shown for the child mode
EnterParentId(t) ==
  /\ su.route = "index"
  /\ su.selectedMode = "child"
  /\ RegisterIdle
  /\ su' = [su EXCEPT !.parentDeviceId = t]
  /\ UNCHANGED << storage, devices, clock, hr >>
  /\ SetupFrame

\* the catch and finally of handleRegister
RegisterCaught(h) ==
  [h EXCEPT !.pc = "done", !.alerts = Append(@, "RegisterFailed")]

\* handleRegister is called: its guards, then setRegistering(true) and the
\* read of device_id
HrCalled ==
  [HrIdle EXCEPT !.mode = su.selectedMode, !.name = su.deviceName,
                 !.parent = su.parentDeviceId, !.before = storage,
                 !.devicesBefore = devices,
                 !.prevId = hr.deviceId,
                 !.prevFailed = RegistrationFailed(hr.response)
                                  /\ hr.response # "none",
                 !.firstId = hr.firstId]

\* the Complete Setup button, disabled while no mode is selected or a
\* registration is in progress
RegisterPress ==
  /\ su.route = "index"
  /\ ~Falsy(su.selectedMode)
  /\ ~su.registering
  /\ RegisterIdle
  /\ clock < MaxOps
  /\ clock' = clock + 1
  /\ IF Falsy(su.selectedMode)
       THEN /\ hr' = [HrCalled EXCEPT !.pc = "done",
                                      !.alerts = << "SelectMode" >>]
            /\ UNCHANGED su
       ELSE IF Falsy(Trim(su.deviceName))
         THEN /\ hr' = [HrCalled EXCEPT !.pc = "done",
                                        !.alerts = << "EnterName" >>]
              /\ UNCHANGED su
         ELSE IF su.selectedMode = "child" /\ Falsy(Trim(su.parentDeviceId))
           THEN /\ hr' = [HrCalled EXCEPT !.pc = "done",
                                          !.alerts = << "EnterParent" >>]
                /\ UNCHANGED su
           ELSE /\ hr' = [HrCalled EXCEPT !.pc = "getId"]
                /\ su' = [su EXCEPT !.registering = TRUE]
  /\ UNCHANGED << storage, devices >>
  /\ SetupFrame

\* the registration request goes out
RegisterSent(h) ==
  [h EXCEPT !.pc = "fetch",
            !.requests = Append(@, RegisterBody(h.deviceId, h.name, h.mode,
                                                h.parent))]

\* AsyncStorage.getItem('device_id') answers; with no id one is generated
\* and its write begins, otherwise the registration request goes out
handleRegisterGetId(fresh) ==
  /\ hr.pc = "getId"
  /\ hr' = IF MissingId(storage["device_id"])
             THEN [hr EXCEPT !.pc = "setId", !.deviceId = fresh]
             ELSE RegisterSent([hr EXCEPT !.deviceId = storage["device_id"]])
  /\ UNCHANGED << storage, devices, clock, su >>
  /\ SetupFrame

\* AsyncStorage.setItem('device_id', deviceId) answers
handleRegisterSetId(r) ==
  /\ hr.pc = "setId"
  /\ IF r = Throw
       THEN /\ hr' = RegisterCaught(hr)
            /\ su' = [su EXCEPT !.registering = FALSE]
            /\ UNCHANGED storage
       ELSE /\ storage' = [storage EXCEPT !["device_id"] = hr.deviceId]
            /\ hr' = RegisterSent([hr EXCEPT !.idWrites = @ + 1,
                                             !.firstId = IF @ = NoValue
                                                         THEN hr.deviceId
                                                         ELSE @])
            /\ UNCHANGED su
  /\ UNCHANGED << devices, clock >>
  /\ SetupFrame

\* fetch of /api/devices/register answers: a success response, a
\* non-success response, or a rejection
handleRegisterFetch(r) ==
  /\ hr.pc = "fetch"
  /\ devices' = IF r = "ok" THEN RegisterDevice(devices, hr.requests[1])
                ELSE devices
  /\ IF RegistrationFailed(r)
       THEN /\ hr' = RegisterCaught([hr EXCEPT !.response = r])
            /\ su' = [su EXCEPT !.registering = FALSE]
       ELSE /\ hr' = [hr EXCEPT !.pc = "setMode", !.response = r]
            /\ UNCHANGED su
  /\ UNCHANGED << storage, clock >>
  /\ SetupFrame

\* router.replace to the mode's screen, then the finally
RegisterNavigated(h) == [h EXCEPT !.pc = "done"]

\* one of the setItem calls that follow the registration answers
RegisterWrite(r, key, value, nextPc) ==
  IF r = Throw
    THEN /\ hr' = RegisterCaught(hr)
         /\ su' = [su EXCEPT !.registering = FALSE]
         /\ UNCHANGED storage
    ELSE /\ storage' = [storage EXCEPT ![key] = value]
         /\ IF nextPc = "done"
              THEN /\ hr' = RegisterNavigated(hr)
                   /\ su' = [su EXCEPT !.registering = FALSE,
                                       !.route = hr.mode]
              ELSE /\ hr' = [hr EXCEPT !.pc = nextPc]
                   /\ UNCHANGED su

handleRegisterSetMode(r) ==
  /\ hr.pc = "setMode"
  /\ RegisterWrite(r, "device_mode", hr.mode, "setName")
  /\ UNCHANGED << devices, clock >>
  /\ SetupFrame

handleRegisterSetName(r) ==
  /\ hr.pc = "setName"
  /\ RegisterWrite(r, "device_name", hr.name,
                   IF hr.mode = "child" THEN "setParent" ELSE "done")
  /\ UNCHANGED << devices, clock >>
  /\ SetupFrame

handleRegisterSetParent(r) ==
  /\ hr.pc = "setParent"
  /\ RegisterWrite(r, "parent_device_id", Trim(hr.parent), "done")
  /\ UNCHANGED << devices, clock >>
  /\ SetupFrame

\* the Logout of the screen the device was routed to: the store is cleared
\* and the router replaces the screen by the index
SetupLogout(modelName) ==
  /\ su.route \in {"parent", "child"}
  /\ RegisterIdle
  /\ storage' = StorageEmpty
  /\ su' = SuFresh(modelName)
  /\ hr' = HrIdle
  /\ UNCHANGED << devices, clock >>
  /\ SetupFrame

FetchAnswers == {"ok", "notOk", Throw}

\* ----------------------------------------------------------- specification
Answers == {"ok", Throw}

\* a position fix, or none when the provider throws
FixAnswers == {None} \cup {Some(f) : f \in Fixes}

\* what the user and the OS begin: one handler at a time
Begin ==
  \/ ChildTrackingMount
  \/ \E r \in Answers : checkTrackingStatus(r)
  \/ StartPress
  \/ StopPress
  \/ SyncPress
  \/ LogoutPress
  \/ OSRemovesTask
  \/ \E input \in FiringInputs : TaskFires(input)

\* the steps of the handlers in progress
Step ==
  \/ \E a \in PermOutcomes : requestForeground(a)
  \/ \E a \in PermOutcomes : requestBackground(a)
  \/ \E a \in PermOutcomes : requestContacts(a)
  \/ \E a \in PermOutcomes : requestMedia(a)
  \/ \E r \in Answers : startLocationUpdates(r)
  \/ StartAfterSync
  \/ StartReturn
  \/ \E r \in Answers : stopQuery(r)
  \/ \E r \in Answers : stopLocationUpdates(r)
  \/ StopReturn
  \/ LogoutAfterStop
  \/ LogoutCleared
  \/ \E c \in SyncCallers :
       \/ syncAllData(c)
       \/ \E a \in PermOutcomes : syncContactsPermission(c, a)
       \/ \E r \in Answers : syncContactsRead(c, r)
       \/ \E r \in Answers : syncContactsPost(c, r)
       \/ \E a \in PermOutcomes : syncGalleryPermission(c, a)
       \/ \E r \in Answers : syncGalleryRead(c, r)
       \/ \E r \in Answers : syncGalleryPost(c, r)
       \/ \E r \in FixAnswers : syncCurrentLocationFix(c, r)
       \/ \E r \in Answers : syncCurrentLocationPost(c, r)
  \/ SyncReturn
  \/ backgroundReadId
  \/ \E r \in Answers : backgroundPost(r)
  \/ BackgroundReturn

Next == (Idle /\ Begin) \/ Step

Spec == Init /\ [][Next]_vars

\* ------------------------------------------------ specification of the setup
\* the ChildTracking screen is not on display and no tracking task exists
TrackingAway ==
  /\ registry = {}
  /\ contactBook = << >>
  /\ mediaLibrary = << >>
  /\ isTracking = FALSE
  /\ locationEnabled = FALSE
  /\ lastSync = 0
  /\ mounted = FALSE
  /\ ck = "idle"
  /\ st = StIdle
  /\ sp = SpIdle
  /\ sy = [c \in SyncCallers |-> SyIdle]
  /\ lo = "idle"
  /\ prev = << "none", FALSE >>
  /\ runs = << >>
  /\ bg = BgIdle

\* a fresh installation opened for the first time
SetupInit ==
  /\ storage = StorageEmpty
  /\ backend = BackendInit
  /\ devices = << >>
  /\ clock = 0
  /\ su \in {SuFresh(m) : m \in ModelNames}
  /\ hr = HrIdle
  /\ pair = PairAway
  /\ pa = PaAway
  /\ TrackingAway

SetupNext ==
  \/ \E m \in ModelNames : IndexMount(m)
  \/ \E m \in {"parent", "child"} : SelectMode(m)
  \/ \E t \in DeviceNameTexts : EnterDeviceName(t)
  \/ \E t \in ParentIdTexts : EnterParentId(t)
  \/ RegisterPress
  \/ \E fresh \in GeneratedIds : handleRegisterGetId(fresh)
  \/ \E r \in Answers : handleRegisterSetId(r)
  \/ \E r \in FetchAnswers : handleRegisterFetch(r)
  \/ \E r \in Answers : handleRegisterSetMode(r)
  \/ \E r \in Answers : handleRegisterSetName(r)
  \/ \E r \in Answers : handleRegisterSetParent(r)
  \/ \E m \in ModelNames : SetupLogout(m)

SetupSpec == SetupInit /\ [][SetupNext]_vars

\* ------------------------------------------------------ pair-device screen
PairingCodeLength == 6

Max(a, b) == IF a > b THEN a ELSE b

\* String.prototype.slice(-n): the last n characters, or all when fewer
SliceFirst(s, n) == SubSeq(s, 1, Min(n, Len(s)))
SliceLast(s, n) == SubSeq(s, Max(Len(s) - n, 0) + 1, Len(s))

LowerCaseLetters == "abcdefghijklmnopqrstuvwxyz"
UpperCaseLetters == "ABCDEFGHIJKLMNOPQRSTUVWXYZ"

\* the character at position i
CharAt(s, i) == SubSeq(s, i, i)

\* String.prototype.toUpperCase, character by character
UpperCaseChar(ch) ==
  IF \E i \in 1..Len(LowerCaseLetters) : CharAt(LowerCaseLetters, i) = ch
    THEN CharAt(UpperCaseLetters,
                CHOOSE i \in 1..Len(LowerCaseLetters) :
                  CharAt(LowerCaseLetters, i) = ch)
    ELSE ch

RECURSIVE ToUpperCase(_)
ToUpperCase(s) ==
  IF s = "" THEN ""
  ELSE UpperCaseChar(CharAt(s, 1)) \o ToUpperCase(SubSeq(s, 2, Len(s)))

\* id ? id.slice(-6).toUpperCase() : '000000'
PairingCode(id) ==
  IF Falsy(id) THEN "000000"
  ELSE ToUpperCase(SliceLast(id, PairingCodeLength))

\* Date.now() readings and Math.random().toString(36).substr(2, 9) results
\* of the parent devices tried
Stamps == {"1700000000000", "1700000000001", "1893456000000", "999999999999"}
Suffixes == {"", "k", "k3", "abc", "z9y8", "abc12", "abc123", "0a1b2c3",
             "q0w9e8r7", "abc123xyz"}

ParentIds == {GenerateId(now, suffix) : now \in Stamps, suffix \in Suffixes}

\* the store as the setup screen leaves it for a parent device
StorageParent(id) ==
  [k \in StorageKeys |->
     CASE k = "device_id" -> id
       [] k = "device_name" -> "Phone"
       [] k = "device_mode" -> "parent"
       [] OTHER -> NoValue]

PairFrame ==
  UNCHANGED << storage, backend, devices, clock, su, hr, pa, trackVars >>

\* the screen is opened: fresh state, and the mount effect calls
\* generatePairingCode, which awaits AsyncStorage.getItem
PairDeviceMount ==
  /\ pair.pc = "idle"
  /\ pair' = [PairFresh EXCEPT !.clipboard = pair.clipboard,
                               !.shared = pair.shared,
                               !.prevCode = IF pair.shown THEN pair.pairingCode
                                            ELSE pair.prevCode]
  /\ PairFrame

\* AsyncStorage.getItem('device_id') answers generatePairingCode
generatePairingCode ==
  /\ pair.pc = "getId"
  /\ pair' = [pair EXCEPT !.pc = "idle",
                          !.deviceId = OrElse(storage["device_id"], ""),
                          !.pairingCode = PairingCode(storage["device_id"])]
  /\ PairFrame

\* the Copy button
copyToClipboard ==
  /\ pair.shown
  /\ pair' = [pair EXCEPT !.clipboard = pair.deviceId]
  /\ PairFrame

\* the Share button: the share sheet takes the message, or rejects
shareDeviceId(r) ==
  /\ pair.shown
  /\ pair.pc = "idle"
  /\ pair' = [pair EXCEPT !.shared = IF r = Throw THEN @
                                     ELSE << pair.pairingCode, pair.deviceId >>]
  /\ PairFrame

\* ------------------------------------- specification of the pairing screen
PairInit ==
  /\ storage \in {StorageEmpty} \cup {StorageParent(id) : id \in ParentIds}
  /\ backend = BackendInit
  /\ devices = << >>
  /\ clock = 0
  /\ su = SuAway
  /\ hr = HrIdle
  /\ pair = PairFresh
  /\ pa = PaAway
  /\ TrackingAway

PairNext ==
  \/ PairDeviceMount
  \/ generatePairingCode
  \/ copyToClipboard
  \/ \E r \in Answers : shareDeviceId(r)

PairSpec == PairInit /\ [][PairNext]_vars

\* ---------------------------------------------------------- parent screens
ParentScreens == {"dashboard", "contacts", "gallery"}
ParentId == "parent_1"
ChildIds == {"device_1", "device_2"}
HistoryLimit == 50

\* the children of ParentId, in the order they register
ChildOrder == << "device_1", "device_2" >>

RegisteredChildren(n) ==
  [i \in 1..n |-> RegisterBody(ChildOrder[i], "Kid phone", "child", ParentId)]

\* a backend in which every child has synced once, or none has
BackendSynced ==
  [d \in ChildIds |->
     [contacts |-> Some(MapSeq(CHOOSE b \in ContactBooks : b # << >>,
                               MapContact)),
      media |-> Some(MapSeq(CHOOSE l \in MediaLibraries : l # << >>,
                            MapAsset)),
      locations |-> << LocationBody(d, CHOOSE f \in Fixes :
                                         f.coords.latitude = 1) >>]]

BackendUnsynced ==
  [d \in ChildIds |->
     [contacts |-> None, media |-> None, locations |-> << >>]]

\* GET /api/devices/parent/{parentId}/children
GetChildren(devs, parentId) ==
  LET mine == SelectSeq(devs, LAMBDA d : d.mode = "child"
                                          /\ d.parent_device_id = parentId)
  IN [i \in 1..Len(mine) |->
        [device_id |-> mine[i].device_id, device_name |-> mine[i].device_name]]

\* GET /api/locations/{deviceId}/latest
GetLatest(b, id) ==
  IF b[id].locations = << >> THEN None
  ELSE Some(b[id].locations[Len(b[id].locations)])

\* GET /api/locations/{deviceId}/history?limit=
GetHistory(b, id, limit) ==
  LET all == b[id].locations
      n == Min(limit, Len(all))
  IN [i \in 1..n |-> all[Len(all) + 1 - i]]

\* a row of GET /api/media/{deviceId}, as the parent's MediaItem interface
\* names its fields; an optional number is absent or present
MediaRow(m) ==
  [media_id |-> m.id, filename |-> m.filename, media_type |-> m.mediaType,
   creation_time |-> Some(m.creationTime),
   width |-> Some(m.width), height |-> Some(m.height),
   duration |-> Some(m.duration),
   location_latitude |-> IF m.location = None THEN None
                         ELSE Some(m.location[1].latitude),
   location_longitude |-> IF m.location = None THEN None
                          ELSE Some(m.location[1].longitude)]

\* GET /api/media/{deviceId}: the device's snapshot as last uploaded
GetMedia(b, id) ==
  IF b[id].media = None THEN << >> ELSE MapSeq(b[id].media[1], MediaRow)

\* the requests of the parent screens
ChildrenRequest(parentId) ==
  [method |-> "GET", path |-> "children", id |-> parentId, body |-> None]

ChildRequestBatch(path, id) ==
  [method |-> "POST", path |-> "contacts/batch", id |-> id,
   body |-> Some(ContactsBody(id, << >>))]
ChildRequest(path, id) ==
  [method |-> "GET", path |-> path, id |-> id, body |-> None]

\* what a request that reached the backend does to its records
Serve(b, req) ==
  IF req.method = "GET" THEN b
  ELSE CASE req.path = "contacts/batch" -> PostContactsBatch(b, req.body[1])
         [] req.path = "media/batch" -> PostMediaBatch(b, req.body[1])
         [] req.path = "locations" -> PostLocation(b, req.body[1])
         [] OTHER -> b

\* the first request of the screen's child fetch
FirstChildPath(screen) ==
  CASE screen = "dashboard" -> "latest"
    [] screen = "contacts" -> "contacts"
    [] screen = "gallery" -> "media"

\* the try/catch of loadData and of the child fetches
LoadRethrows == FALSE
LoadCatches == TRUE

ParentIdle ==
  /\ pa.screen # "none"
  /\ pa.ld.pc = "idle"
  /\ pa.lc.pc = "idle"
  /\ pa.rf.pc = "idle"

ParentFrame ==
  UNCHANGED << storage, clock, su, hr, pair, trackVars >>

\* a request goes out and reaches the backend
ParentSends(p, req) == [p EXCEPT !.requests = Append(@, req)]

\* a tab of the parent is opened: the screen mounts
ParentScreenMount(screen) ==
  /\ ParentIdle
  /\ ~pa.effectDue
  /\ pa' = PaFresh(screen)
  /\ UNCHANGED << backend, devices >>
  /\ ParentFrame

\* loadData: AsyncStorage.getItem('device_id') answers
loadDataGetId ==
  /\ pa.ld.pc = "getId"
  /\ LET id == storage["device_id"]
     IN IF NoDeviceId(id)
          THEN /\ pa' = [pa EXCEPT !.ld.pc = "done", !.loading = FALSE]
               /\ UNCHANGED backend
          ELSE /\ pa' = ParentSends([pa EXCEPT !.ld.pc = "get"],
                                    ChildrenRequest(id))
               /\ backend' = Serve(backend, ChildrenRequest(id))
  /\ UNCHANGED devices
  /\ ParentFrame

\* the children of the response, as objects of this response
Tagged(list, gen) ==
  [i \in 1..Len(list) |->
     [device_id |-> list[i].device_id, device_name |-> list[i].device_name,
      gen |-> gen]]

\* loadData: the children request answers
loadDataGet(r) ==
  /\ pa.ld.pc = "get"
  /\ LET data == Tagged(GetChildren(devices, storage["device_id"]),
                        pa.gen + 1)
         selects == Len(data) > 0 /\ pa.ld.selected = None
         outcome == IF r = Throw THEN "failed" ELSE "ok"
         p == [pa EXCEPT !.ld.pc = "done", !.loading = FALSE,
                         !.rf.childrenFetch = IF pa.ld.by = "refresh"
                                              THEN outcome ELSE @]
     IN pa' = IF r = Throw
                THEN [p EXCEPT !.ld.raised = ~LoadCatches,
                               !.alerts = IF pa.screen = "dashboard"
                                          THEN Append(@, "LoadFailed") ELSE @]
                ELSE [p EXCEPT !.children = data, !.gen = @ + 1,
                               !.selectedChild = IF selects THEN Some(data[1])
                                                 ELSE @,
                               !.effectDue = @ \/ selects]
  /\ UNCHANGED << backend, devices >>
  /\ ParentFrame

\* the mount effect's loadData has returned
LoadDataReturn ==
  /\ pa.ld.pc = "done"
  /\ pa.ld.by = "mount"
  /\ pa' = [pa EXCEPT !.ld = LdIdle]
  /\ UNCHANGED << backend, devices >>
  /\ ParentFrame

\* the child fetch of the screen is called: its first request goes out
LoadChildCalled(p, by, childId) ==
  ParentSends([p EXCEPT !.lc = [LcIdle EXCEPT !.pc = "get", !.by = by,
                                               !.childId = childId]],
              ChildRequest(FirstChildPath(p.screen), childId))

\* the effect on selectedChild runs after the render that changed it
SelectedChildEffect ==
  /\ ParentIdle
  /\ pa.effectDue
  /\ IF pa.selectedChild = None
       THEN /\ pa' = [pa EXCEPT !.effectDue = FALSE]
            /\ UNCHANGED backend
       ELSE /\ pa' = LoadChildCalled([pa EXCEPT !.effectDue = FALSE,
                                                !.requests = << >>],
                                     "effect",
                                     pa.selectedChild[1].device_id)
            /\ backend' = Serve(backend,
                                ChildRequest(FirstChildPath(pa.screen),
                                             pa.selectedChild[1].device_id))
  /\ UNCHANGED devices
  /\ ParentFrame

\* a child card is tapped: setSelectedChild with the card's object
SelectChild(i) ==
  /\ ParentIdle
  /\ ~pa.effectDue
  /\ ~pa.loading
  /\ i \in 1..Len(pa.children)
  /\ pa' = [pa EXCEPT !.selectedChild = Some(pa.children[i]),
                      !.effectDue = pa.selectedChild # Some(pa.children[i])]
  /\ UNCHANGED << backend, devices >>
  /\ ParentFrame

\* the child fetch ends: its catch, or its last setState
LoadChildEnded(p, outcome) ==
  [p EXCEPT !.lc.pc = "done",
            !.lc.raised = outcome = "failed" /\ ~LoadCatches,
            !.rf.childFetch = IF p.lc.by = "refresh" THEN outcome ELSE @]

\* the first request of the child fetch answers
loadChildGet(r) ==
  /\ pa.lc.pc = "get"
  /\ LET id == pa.lc.childId
     IN IF r = Throw
          THEN /\ pa' = LoadChildEnded(pa, "failed")
               /\ UNCHANGED backend
          ELSE CASE pa.screen = "dashboard" ->
                      /\ pa' = ParentSends(
                                 [pa EXCEPT !.lc.pc = "get2",
                                            !.current = GetLatest(backend, id),
                                            !.of["current"] = id],
                                 ChildRequest("history", id))
                      /\ backend' = Serve(backend,
                                          ChildRequest("history", id))
                 [] pa.screen = "contacts" ->
                      /\ pa' = LoadChildEnded(
                                 [pa EXCEPT !.contacts =
                                              GetContacts(backend, id),
                                            !.of["contacts"] = id], "ok")
                      /\ UNCHANGED backend
                 [] pa.screen = "gallery" ->
                      /\ pa' = LoadChildEnded(
                                 [pa EXCEPT !.media = GetMedia(backend, id),
                                            !.of["media"] = id],
                                 "ok")
                      /\ UNCHANGED backend
  /\ UNCHANGED devices
  /\ ParentFrame

\* loadChildLocation: the history request answers
loadChildLocationHistory(r) ==
  /\ pa.lc.pc = "get2"
  /\ pa' = IF r = Throw THEN LoadChildEnded(pa, "failed")
           ELSE LoadChildEnded(
                  [pa EXCEPT !.history = GetHistory(backend, pa.lc.childId,
                                                    HistoryLimit),
                             !.of["history"] = pa.lc.childId], "ok")
  /\ UNCHANGED << backend, devices >>
  /\ ParentFrame

\* the effect's child fetch has returned
LoadChildReturn ==
  /\ pa.lc.pc = "done"
  /\ pa.lc.by = "effect"
  /\ pa' = [pa EXCEPT !.lc = LcIdle]
  /\ UNCHANGED << backend, devices >>
  /\ ParentFrame

\* pull to refresh: setRefreshing(true), loadData is called
onRefresh ==
  /\ ParentIdle
  /\ ~pa.effectDue
  /\ ~pa.loading
  /\ ~pa.refreshing
  /\ clock < MaxOps
  /\ clock' = clock + 1
  /\ pa' = [pa EXCEPT !.refreshing = TRUE,
                      !.requests = << >>,
                      !.rf = [RfIdle EXCEPT !.pc = "loadData",
                                            !.selected = pa.selectedChild],
                      !.ld = [LdIdle EXCEPT !.pc = "getId", !.by = "refresh",
                                            !.selected = pa.selectedChild]]
  /\ UNCHANGED << storage, backend, devices, su, hr, pair, trackVars >>

\* onRefresh: loadData has returned; the child fetch is called for the
\* selected child, or the refresh ends
onRefreshAfterLoadData ==
  /\ pa.rf.pc = "loadData"
  /\ pa.ld.pc = "done"
  /\ LET p == [pa EXCEPT !.ld = LdIdle]
     IN IF pa.ld.raised
          THEN /\ pa' = [p EXCEPT !.rf.pc = "done", !.rf.raised = TRUE]
               /\ UNCHANGED backend
          ELSE IF pa.rf.selected = None
            THEN /\ pa' = [p EXCEPT !.rf.pc = "done", !.refreshing = FALSE]
                 /\ UNCHANGED backend
            ELSE /\ pa' = LoadChildCalled([p EXCEPT !.rf.pc = "loadChild"],
                                          "refresh",
                                          pa.rf.selected[1].device_id)
                 /\ backend' = Serve(backend,
                                     ChildRequest(FirstChildPath(pa.screen),
                                                  pa.rf.selected[1].device_id))
  /\ UNCHANGED devices
  /\ ParentFrame

\* onRefresh: the child fetch has returned; setRefreshing(false)
onRefreshAfterLoadChild ==
  /\ pa.rf.pc = "loadChild"
  /\ pa.lc.pc = "done"
  /\ pa' = IF pa.lc.raised
             THEN [pa EXCEPT !.lc = LcIdle, !.rf.pc = "done",
                             !.rf.raised = TRUE]
             ELSE [pa EXCEPT !.lc = LcIdle, !.rf.pc = "done",
                             !.refreshing = FALSE]
  /\ UNCHANGED << backend, devices >>
  /\ ParentFrame

\* onRefresh has returned
RefreshReturn ==
  /\ pa.rf.pc = "done"
  /\ pa' = [pa EXCEPT !.rf = RfIdle]
  /\ UNCHANGED << backend, devices >>
  /\ ParentFrame

\* ----------------------------------------------------------- gallery views
\* the truth value of an optional number: absent, 0 and NaN are falsy
Truthy(x) == x # None /\ x[1] # 0

\* x || 0 for an optional number
OrZero(x) == IF x = None THEN 0 ELSE x[1]

\* what Array.prototype.filter keeps for the location view
HasLocation(item) ==
  Truthy(item.location_latitude) /\ Truthy(item.location_longitude)

\* item goes into a list sorted by the comparator timeB - timeA, after the
\* items it does not precede (the sort is stable)
RECURSIVE InsertByDate(_, _)
InsertByDate(sorted, item) ==
  IF sorted = << >> THEN << item >>
  ELSE IF OrZero(item.creation_time) > OrZero(sorted[1].creation_time)
    THEN << item >> \o sorted
    ELSE << sorted[1] >> \o InsertByDate(Tail(sorted), item)

RECURSIVE SortByDate(_)
SortByDate(items) ==
  IF items = << >> THEN << >>
  ELSE InsertByDate(SortByDate(SubSeq(items, 1, Len(items) - 1)),
                    items[Len(items)])

\* getSortedMedia(): the view of a copy of the media state
getSortedMedia(media, sortBy) ==
  IF sortBy = "date" THEN SortByDate(media)
  ELSE SelectSeq(media, HasLocation)

\* the Date / Location buttons of the gallery
setSortBy(mode) ==
  /\ pa.screen = "gallery"
  /\ ParentIdle
  /\ ~pa.effectDue
  /\ pa.sortBy # mode
  /\ pa' = [pa EXCEPT !.sortBy = mode]
  /\ UNCHANGED << backend, devices >>
  /\ ParentFrame

\* meanwhile a child of the parent is set up and registers
ChildRegisters ==
  /\ Len(devices) < Len(ChildOrder)
  /\ clock < MaxOps
  /\ clock' = clock + 1
  /\ devices' = RegisterDevice(devices, RegisteredChildren(Len(devices) + 1)
                                          [Len(devices) + 1])
  /\ UNCHANGED << storage, backend, pa, su, hr, pair, trackVars >>

\* meanwhile a child of the parent registers again, with another parent's
\* id: the last registration wins
OtherParentId == "parent_2"

ChildRepairs(i) ==
  /\ i \in 1..Len(devices)
  /\ devices[i].parent_device_id = ParentId
  /\ clock < MaxOps
  /\ clock' = clock + 1
  /\ devices' = RegisterDevice(devices,
                               [devices[i] EXCEPT !.parent_device_id =
                                                    OtherParentId])
  /\ UNCHANGED << storage, backend, pa, su, hr, pair, trackVars >>

\* meanwhile a registered child uploads a location sample
ChildUploads(i, fix) ==
  /\ i \in 1..Len(devices)
  /\ clock < MaxOps
  /\ clock' = clock + 1
  /\ backend' = PostLocation(backend, LocationBody(devices[i].device_id, fix))
  /\ UNCHANGED << storage, devices, pa, su, hr, pair, trackVars >>

\* ------------------------------------- specification of the parent screens
ParentInit ==
  /\ storage = StorageParent(ParentId)
  /\ backend \in {BackendUnsynced, BackendSynced}
  /\ devices \in {RegisteredChildren(n) : n \in 0..Len(ChildOrder)}
  /\ clock = 0
  /\ su = SuAway
  /\ hr = HrIdle
  /\ pair = PairAway
  /\ pa \in {PaFresh(s) : s \in ParentScreens}
  /\ TrackingAway

ParentNext ==
  \/ \E s \in ParentScreens : ParentScreenMount(s)
  \/ loadDataGetId
  \/ \E r \in Answers : loadDataGet(r)
  \/ LoadDataReturn
  \/ SelectedChildEffect
  \/ \E i \in 1..Len(ChildOrder) : SelectChild(i)
  \/ \E r \in Answers : loadChildGet(r)
  \/ \E r \in Answers : loadChildLocationHistory(r)
  \/ LoadChildReturn
  \/ onRefresh
  \/ onRefreshAfterLoadData
  \/ onRefreshAfterLoadChild
  \/ RefreshReturn
  \/ \E mode \in {"date", "location"} : setSortBy(mode)
  \/ ChildRegisters
  \/ \E i \in 1..Len(ChildOrder) : ChildRepairs(i)
  \/ \E i \in 1..Len(ChildOrder), fix \in Fixes : ChildUploads(i, fix)

ParentSpec == ParentInit /\ [][ParentNext]_vars

\* ------------------------------ specification of the overlapping handlers
\* a set-up child device with contacts and media, its tracking screen open
OverlapInit ==
  /\ Init
  /\ storage # StorageEmpty
  /\ contactBook # << >>
  /\ mediaLibrary # << >>

\* the handlers do not wait for each other: a button is pressed, or the OS
\* fires the task, while other handlers are between two awaits
OverlapNext ==
  \/ \E r \in Answers : checkTrackingStatus(r)
  \/ sp.pc = "idle" /\ lo = "idle" /\ StopPress
  \/ sy["manual"].pc = "idle" /\ SyncPress
  \/ sp.pc = "idle" /\ lo = "idle" /\ LogoutPress
  \/ \E input \in FiringInputs : TaskFires(input)
  \/ \E r \in Answers : stopQuery(r)
  \/ \E r \in Answers : stopLocationUpdates(r)
  \/ StopReturn
  \/ LogoutAfterStop
  \/ LogoutCleared
  \/ syncAllData("manual")
  \/ \E a \in PermOutcomes : syncContactsPermission("manual", a)
  \/ \E r \in Answers : syncContactsRead("manual", r)
  \/ \E r \in Answers : syncContactsPost("manual", r)
  \/ \E a \in PermOutcomes : syncGalleryPermission("manual", a)
  \/ \E r \in Answers : syncGalleryRead("manual", r)
  \/ \E r \in Answers : syncGalleryPost("manual", r)
  \/ \E r \in FixAnswers : syncCurrentLocationFix("manual", r)
  \/ \E r \in Answers : syncCurrentLocationPost("manual", r)
  \/ SyncReturn
  \/ backgroundReadId
  \/ \E r \in Answers : backgroundPost(r)
  \/ BackgroundReturn

OverlapSpec == OverlapInit /\ [][OverlapNext]_vars



\* ------------------------------------------------------------------ claims
Active == IsTaskRegistered(registry)

LocationGranted(s) == s.fg = "granted" /\ s.bg = "granted"

\* C1, as stated: after start(), status() is Active exactly when both
\* location permissions were granted, and Unregistered with no task
\* registered when either was denied.
C1_ActiveIffGranted ==
  st.pc = "done" =>
    /\ Active <=> LocationGranted(st)
    /\ ~LocationGranted(st) => ~Active /\ st.regCalls = 0

\* C1, amended: after start(), status() is Active exactly when the task was
\* registered before the call, or both location permissions were granted
\* and neither a permission request nor the registration threw; when either
\* location permission was not granted, start() has made no registration
\* call and the status is what it was before.
C1_ActiveIffRegistered ==
  st.pc = "done" =>
    /\ Active <=> (st.regBefore \/ (LocationGranted(st) /\ ~st.threw))
    /\ ~LocationGranted(st) => st.regCalls = 0 /\ (Active <=> st.regBefore)

C1_Witness ==
  /\ st.pc = "done"
  /\ LocationGranted(st)
  /\ ~st.regBefore
  /\ ~st.threw
  /\ Active

\* C2: a second start() in succession, made with both location permissions
\* granted while the task of the first is registered, leaves exactly one
\* registered task and status Active, lets no exception escape, and shows
\* no failure when the OS accepts the registration.
C2_SecondStartOneTask ==
  (st.pc = "done" /\ prev = << "start", TRUE >> /\ st.regBefore
     /\ LocationGranted(st)) =>
    /\ registry = {LOCATION_TASK_NAME}
    /\ Active
    /\ ~st.raised
    /\ st.regOutcome = "ok" =>
         ~Shown(st.alerts, "StartError") /\ Shown(st.alerts, "TrackingStarted")

C2_Witness ==
  /\ st.pc = "done"
  /\ prev = << "start", TRUE >>
  /\ st.regBefore
  /\ st.regOutcome = "ok"
  /\ registry = {LOCATION_TASK_NAME}

\* C3: stop() called while the task is Unregistered issues no
\* deregistration call, lets no exception escape and leaves the task
\* Unregistered; so does every further stop().
C3_StopWhenUnregistered ==
  (sp.pc = "done" /\ ~sp.regBefore) =>
    /\ sp.deregCalls = 0
    /\ ~sp.raised
    /\ ~Active
    /\ ~sp.threw => ~isTracking /\ Shown(sp.alerts, "TrackingStopped")

C3_Witness ==
  /\ sp.pc = "done"
  /\ prev = << "stop", TRUE >>
  /\ ~sp.regBefore
  /\ ~sp.threw
  /\ ~Active

\* C4, as stated: after stop() no exception has reached the caller and the
\* task is not registered, also when the deregistration call throws.
C4_StopAlwaysUnregisters ==
  sp.pc = "done" => ~sp.raised /\ ~Active

\* C4, amended: after stop() no exception has reached the caller; the task
\* is not registered unless the registry query or the deregistration call
\* threw, in which case the registration is left as it was.
C4_StopUnregistersUnlessThrown ==
  sp.pc = "done" =>
    /\ ~sp.raised
    /\ ~sp.threw => ~Active
    /\ sp.threw => (Active <=> sp.regBefore)

C4_Witness ==
  /\ sp.pc = "done"
  /\ sp.regBefore
  /\ sp.deregCalls = 1
  /\ ~sp.threw
  /\ ~Active

\* a run of syncAllData that read a device id has ended
RunEnded(c) == sy[c].pc = "done" /\ sy[c].deviceId # NoValue

\* C5: in a run with a device id, every domain is attempted whatever
\* happened to the others, and every domain whose own permission query,
\* read and upload met no refusal and no failure has sent its one upload.
C5_DomainIsolation ==
  \A c \in SyncCallers :
    RunEnded(c) =>
      \A d \in Domains :
        /\ sy[c].env[d] # "none"
        /\ sy[c].env[d] = "ok" =>
             sy[c].posts[d] = 1 /\ sy[c].outcome[d] = "uploaded"

C5_Witness ==
  \E c \in SyncCallers :
    /\ RunEnded(c)
    /\ sy[c].env["contacts"] = "throw"
    /\ sy[c].env["media"] = "throw"
    /\ sy[c].outcome["location"] = "uploaded"

\* C6: a run in which a domain failed is not reported as fully successful.
C6_FailureReported ==
  \A c \in SyncCallers :
    (RunEnded(c) /\ \E d \in Domains : sy[c].outcome[d] = "failed") =>
      ~Shown(sy[c].alerts, "SyncSuccess")

C8_ContactsDeniedSkipped ==
  \A c \in SyncCallers :
    (RunEnded(c) /\ sy[c].env["contacts"] = "denied"
       /\ sy[c].env["media"] = "ok" /\ sy[c].env["location"] = "ok") =>
      /\ sy[c].outcome["contacts"] = "skipped"
      /\ sy[c].posts["contacts"] = 0
      /\ sy[c].posts["media"] = 1
      /\ sy[c].posts["location"] = 1
      /\ backend[sy[c].deviceId].contacts = sy[c].before[sy[c].deviceId].contacts
      /\ Len(backend[sy[c].deviceId].locations)
           = Len(sy[c].before[sy[c].deviceId].locations) + 1
      /\ Shown(sy[c].alerts, "SyncSuccess")

C8_Witness ==
  \E c \in SyncCallers :
    /\ RunEnded(c)
    /\ sy[c].env["contacts"] = "denied"
    /\ sy[c].outcome["media"] = "uploaded"
    /\ sy[c].outcome["location"] = "uploaded"

\* the events of domain d may follow those of domain e directly
Follows(e, d) == << e, d >> \in {<< "contacts", "media" >>, << "media", "location" >>}

\* C9: within a run the domains begin in the order contacts, media,
\* location, each only when the one before has ended, every upload goes
\* out and ends inside its own domain, and no two uploads are in flight.
C9_StrictOrder ==
  \A c \in SyncCallers :
    LET log == sy[c].log
    IN /\ Cardinality(sy[c].inflight) <= 1
       /\ \A i \in 1..Len(log) :
            CASE log[i][2] = "begin" ->
                   IF i = 1 THEN log[i][1] = "contacts"
                   ELSE log[i - 1][2] = "end" /\ Follows(log[i - 1][1], log[i][1])
              [] log[i][2] = "post" ->
                   i > 1 /\ log[i - 1] = << log[i][1], "begin" >>
              [] OTHER ->
                   i > 1 /\ log[i - 1][1] = log[i][1] /\ log[i - 1][2] # "end"

C9_Witness ==
  \E c \in SyncCallers :
    /\ RunEnded(c)
    /\ Len(sy[c].log) = 9
    /\ sy[c].log[9] = << "location", "end" >>

\* C10: of two consecutive fully successful runs on the same contacts and
\* media, the second leaves every contacts and media snapshot as the first
\* left it, and together they append exactly two location samples to the
\* history the first run found.
C10_ResyncIdempotent ==
  (Len(runs) = 2 /\ runs[1].before = runs[2].after
     /\ runs[1].contacts = runs[2].contacts
     /\ runs[1].media = runs[2].media) =>
    \A id \in DeviceIds :
      /\ runs[1].after[id].contacts = runs[2].after[id].contacts
      /\ runs[1].after[id].media = runs[2].after[id].media
      /\ Len(runs[1].after[id].locations)
           = Len(runs[2].before[id].locations) + 2
      /\ SubSeq(runs[1].after[id].locations, 1,
                Len(runs[2].before[id].locations))
           = runs[2].before[id].locations

C10_Witness ==
  /\ Len(runs) = 2
  /\ runs[1].before = runs[2].after
  /\ runs[1].contacts = runs[2].contacts
  /\ Len(runs[1].contacts) = 3
  /\ Len(backend["device_1"].locations) = 2

\* the strings a device contact's list of values maps to, in the list's order
Flattened(values, field) ==
  IF values = None THEN << >>
  ELSE [i \in 1..Len(values[1]) |->
          IF values[1][i][field] = NoValue THEN "" ELSE values[1][i][field]]

\* C11: a run whose contacts domain uploaded has sent exactly one contacts
\* batch, and a read of the device's contact snapshot then yields one
\* record per device contact, in the order the device returned them, each
\* with the contact's id, phone numbers and emails, with the name 'Unknown'
\* when the contact's name is absent and the contact's own name when it has
\* a non-empty one.
C11_ContactsRoundTrip ==
  \A c \in SyncCallers :
    sy[c].outcome["contacts"] = "uploaded" =>
      LET read == GetContacts(backend, sy[c].deviceId)
      IN /\ sy[c].posts["contacts"] = 1
         /\ Len(read) = Len(contactBook)
         /\ \A i \in 1..Len(read) :
              /\ read[i].contact_id = contactBook[i].id
              /\ contactBook[i].name = NoValue => read[i].name = "Unknown"
              /\ contactBook[i].name \notin {NoValue, ""} =>
                   read[i].name = contactBook[i].name
              /\ read[i].phone_numbers
                   = Flattened(contactBook[i].phoneNumbers, "number")
              /\ read[i].emails = Flattened(contactBook[i].emails, "email")

C11_Witness ==
  \E c \in SyncCallers :
    /\ sy[c].outcome["contacts"] = "uploaded"
    /\ Len(GetContacts(backend, sy[c].deviceId)) = 3
    /\ GetContacts(backend, sy[c].deviceId)[1].name = "Unknown"
    /\ GetContacts(backend, sy[c].deviceId)[2].name = "Ann"

\* the local keys that setup commits on success
CommitKeys == {"device_mode", "device_name", "parent_device_id"}

\* C12: when the registration request of a setup attempt throws or gets a
\* non-success response, the persisted role, name and parent id are as they
\* were before the attempt, the device id the attempt used stays persisted
\* and the failure is shown; and the attempt that follows a failed
\* registration sends its request with the same device id.
C12_FailureNoPartialCommit ==
  /\ (hr.pc = "done" /\ hr.response \in {"notOk", Throw}) =>
       /\ \A k \in CommitKeys : storage[k] = hr.before[k]
       /\ storage["device_id"] = hr.deviceId
       /\ hr.deviceId # NoValue
       /\ Shown(hr.alerts, "RegisterFailed")
  /\ (hr.prevFailed /\ hr.requests # << >>) =>
       hr.requests[1].device_id = hr.prevId

C12_Witness ==
  /\ hr.pc = "done"
  /\ hr.response = "notOk"
  /\ hr.prevFailed
  /\ hr.idWrites = 0
  /\ hr.requests[1].device_id = hr.prevId
  /\ storage["device_mode"] = NoValue

\* a text of nothing but spaces
Blank(t) == \A i \in 1..Len(t) : SubSeq(t, i, i) = " "

\* the input handleRegister rejects: no role, or a child without parent id
InvalidInput(h) ==
  \/ h.mode \notin {"parent", "child"}
  \/ h.mode = "child" /\ Blank(h.parent)

\* C13: called with no role selected, or with role child and a parent id
\* that is empty after trimming, handleRegister sends no registration
\* request, writes nothing to the local store (no device id either) and
\* registers nothing, at any point of the call.
C13_InvalidInputNoEffect ==
  (hr.pc # "idle" /\ InvalidInput(hr)) =>
    /\ hr.pc = "done"
    /\ hr.requests = << >>
    /\ hr.idWrites = 0
    /\ storage = hr.before
    /\ devices = hr.devicesBefore
    /\ hr.alerts # << >>

C13_Witness ==
  /\ hr.pc = "done"
  /\ hr.mode = "child"
  /\ hr.parent = " "
  /\ hr.alerts = << "EnterParent" >>
  /\ storage["device_id"] = NoValue

\* C14: a setup attempt that finds a device id persisted uses that id and
\* writes none; no attempt writes the id more than once; and from its first
\* write until the store is cleared the persisted device id is the id of
\* that first write, however many attempts follow.
C14_DeviceIdWrittenOnce ==
  /\ hr.idWrites <= 1
  /\ (hr.pc # "idle" /\ hr.before["device_id"] # NoValue) =>
       /\ hr.idWrites = 0
       /\ hr.deviceId \in {NoValue, hr.before["device_id"]}
       /\ hr.pc \in {"fetch", "setMode", "setName", "setParent"} =>
            hr.deviceId = hr.before["device_id"]
  /\ hr.firstId # NoValue => storage["device_id"] = hr.firstId

C14_Witness ==
  /\ hr.pc = "fetch"
  /\ hr.before["device_id"] # NoValue
  /\ hr.idWrites = 0
  /\ hr.firstId = storage["device_id"]
  /\ hr.requests[1].device_id = hr.firstId

\* ch is the upper-case form of the character c
UpperOf(ch, c) ==
  IF \E i \in 1..Len(LowerCaseLetters) : CharAt(LowerCaseLetters, i) = c
    THEN \E i \in 1..Len(LowerCaseLetters) :
           CharAt(LowerCaseLetters, i) = c /\ CharAt(UpperCaseLetters, i) = ch
    ELSE ch = c

\* C15: the code displayed for a persisted device id has exactly six
\* characters, its i-th character being the upper-case form of the i-th of
\* the id's last six characters; and a later opening of the screen with the
\* same id displays the same code.
C15_PairingCodeFromId ==
  (pair.shown /\ pair.pc = "idle" /\ storage["device_id"] # NoValue) =>
    LET id == storage["device_id"]
        code == pair.pairingCode
    IN /\ Len(code) = 6
       /\ \A i \in 1..6 :
            UpperOf(CharAt(code, i), CharAt(id, Len(id) - 6 + i))
       /\ pair.prevCode # "" => code = pair.prevCode

C15_Witness ==
  /\ pair.shown
  /\ pair.pc = "idle"
  /\ storage["device_id"] = "device_1700000000000_abc123xyz"
  /\ pair.pairingCode = "123XYZ"
  /\ pair.prevCode = "123XYZ"

\* C16: a firing that reads the store and finds no device id sends no
\* upload, logs nothing, raises nothing and leaves the store, the task
\* registry and the backend as they were, whatever batch it received.
C16_FiringWithoutIdNoOp ==
  (bg.pc = "done" /\ bg.read /\ bg.storeBefore["device_id"] = NoValue) =>
    /\ bg.posts = 0
    /\ bg.logged = << >>
    /\ ~bg.raised
    /\ ~bg.failed
    /\ backend = bg.before
    /\ storage = bg.storeBefore
    /\ IsTaskRegistered(registry)

C16_Witness ==
  /\ bg.pc = "done"
  /\ bg.read
  /\ prev = << "logout", TRUE >>
  /\ storage = StorageEmpty
  /\ Len(bg.locations) = 2
  /\ bg.posts = 0

\* C17: while the tracking screen is on display with its mount check done
\* and no handler in progress, the status it shows is Active exactly when
\* the task is registered.
C17_StatusNeverStale ==
  (mounted /\ ck = "idle" /\ Idle) => (isTracking <=> IsTaskRegistered(registry))

\* C20: a firing sends at most one request, the sample of the first fix of
\* its batch under the persisted device id; it sends none when it carries an
\* error or an empty batch; a failed upload is logged and followed by no
\* other request; and nothing is raised.
C20_FiringOneUploadNoRetry ==
  /\ bg.posts <= 1
  /\ ~bg.raised
  /\ bg.posts = 1 =>
       /\ bg.locations # << >>
       /\ bg.body = Some(LocationBody(bg.storeBefore["device_id"],
                                      bg.locations[1]))
  /\ (bg.pc = "done" /\ (bg.error \/ bg.locations = << >>)) =>
       bg.posts = 0 /\ backend = bg.before
  /\ (bg.pc = "done" /\ bg.failed) =>
       /\ backend = bg.before
       /\ bg.logged = << "sendError" >>
  /\ (bg.pc = "done" /\ bg.posts = 1 /\ ~bg.failed) =>
       Len(backend[bg.deviceId].locations)
         = Len(bg.before[bg.deviceId].locations) + 1

C20_Witness ==
  /\ bg.pc = "done"
  /\ bg.failed
  /\ bg.posts = 1
  /\ Len(bg.locations) = 2
  /\ bg.body[1].latitude = bg.locations[1].coords.latitude

\* C18: every request a parent screen has issued is a GET, and no step of
\* a parent screen (mount, load, child selection, refresh) changes a
\* location, contact, media or device record of the backend.
C18_ParentOnlyReads ==
  [][pa' # pa =>
       /\ backend' = backend
       /\ devices' = devices
       /\ \A i \in 1..Len(pa'.requests) : pa'.requests[i].method = "GET"]_vars

C18_Witness ==
  /\ pa.screen = "contacts"
  /\ pa.rf.pc = "done"
  /\ Len(pa.requests) = 2
  /\ Len(pa.contacts) = 3
  /\ backend = BackendSynced

\* the paths of the requests issued since the refresh began
RefreshPaths == [i \in 1..Len(pa.requests) |-> pa.requests[i].path]

\* C19: during a refresh the refreshing flag is true, and false once the
\* refresh has completed, whatever the fetches answered; the children list
\* is requested first; the selected child's data is requested only after
\* the children fetch has ended, well or not, and only for the child that
\* was selected when the refresh began; with no child selected then, the
\* refresh requests the children list and nothing else.
C19_RefreshOrder ==
  /\ pa.rf.pc \in {"loadData", "loadChild"} => pa.refreshing
  /\ pa.rf.pc = "done" => ~pa.refreshing /\ ~pa.rf.raised
  /\ (pa.rf.pc # "idle" /\ pa.requests # << >>) =>
       pa.requests[1] = ChildrenRequest(storage["device_id"])
  /\ (pa.rf.pc # "idle" /\ Len(pa.requests) > 1) =>
       /\ pa.rf.childrenFetch # "none"
       /\ pa.rf.selected # None
       /\ \A i \in 2..Len(pa.requests) :
            /\ pa.requests[i].path # "children"
            /\ pa.requests[i].id = pa.rf.selected[1].device_id
  /\ pa.rf.pc = "done" =>
       /\ pa.rf.childrenFetch # "none"
       /\ IF pa.rf.selected = None
            THEN RefreshPaths = << "children" >>
            ELSE CASE pa.screen = "contacts" ->
                        RefreshPaths = << "children", "contacts" >>
                   [] pa.screen = "gallery" ->
                        RefreshPaths = << "children", "media" >>
                   [] pa.screen = "dashboard" ->
                        RefreshPaths \in
                          { << "children", "latest" >>,
                            << "children", "latest", "history" >> }

C19_Witness ==
  /\ pa.screen = "dashboard"
  /\ pa.rf.pc = "done"
  /\ pa.rf.childrenFetch = "failed"
  /\ pa.rf.childFetch = "ok"
  /\ Len(pa.requests) = 3
  /\ ~pa.refreshing

\* C21: the initial pass of syncAllData is called at the step at which the
\* registration succeeds and at no other; while startTracking waits for it
\* the pass is in progress and the task is registered; startTracking ends
\* after a successful registration only once that pass has ended, having
\* called syncAllData exactly once.
C21_StartSyncsOnce ==
  [][/\ (sy["start"].pc = "idle" /\ sy'["start"].pc # "idle") =>
          /\ st.pc = "register"
          /\ st'.regOutcome = "ok"
          /\ sy'["start"].pc = "readId"
     /\ sy'["start"].pc # "idle" =>
          /\ st'.pc = "sync"
          /\ st'.regOutcome = "ok"
          /\ IsTaskRegistered(registry')
     /\ st'.pc = "sync" => sy'["start"].pc # "idle" /\ st'.syncs = 1
     /\ (st.pc # "done" /\ st'.pc = "done" /\ st'.regOutcome = "ok") =>
          /\ st.pc = "sync"
          /\ sy["start"].pc = "done"
          /\ st'.syncs = 1]_vars

C21_Witness ==
  /\ st.pc = "done"
  /\ st.regOutcome = "ok"
  /\ ~st.regBefore
  /\ st.syncs = 1
  /\ lastSync # 0
  /\ Len(backend["device_1"].locations) = 1

C23_OptionalRefusalGoesOn ==
  (LocationGranted(st) /\ ~st.threw) =>
    /\ st.pc \in {"reqContacts", "reqMedia", "register", "sync", "done"}
    /\ st.pc = "done" =>
         /\ st.regCalls = 1
         /\ st.regOutcome = "ok"
         /\ Active
         /\ isTracking
         /\ Shown(st.alerts, "TrackingStarted")
         /\ st.syncs = 1

C23_Witness ==
  /\ st.pc = "done"
  /\ LocationGranted(st)
  /\ Shown(st.alerts, "ContactsDenied")
  /\ Shown(st.alerts, "MediaDenied")
  /\ ~st.regBefore
  /\ Active
  /\ st.syncs = 1

\* a run of syncAllData whose record is s read a device id and has ended
\* with every domain attempted and every untroubled domain uploaded once
EndedWhole(s) ==
  (s.pc = "done" /\ s.deviceId # NoValue) =>
    \A d \in Domains :
      /\ s.env[d] # "none"
      /\ s.env[d] = "ok" => s.posts[d] = 1 /\ s.outcome[d] = "uploaded"

\* C24: no step of stopTracking changes a run of syncAllData in progress,
\* so a run that began before the task was deregistered still attempts all
\* its domains and sends the upload of every domain that meets no refusal
\* and no failure; and a firing of the background task begins only while
\* the task is registered.
C24_StopLeavesSyncRunning ==
  [][/\ sp' # sp => sy' = sy
     /\ \A c \in SyncCallers : EndedWhole(sy'[c])
     /\ (bg.pc = "idle" /\ bg'.pc # "idle") => IsTaskRegistered(registry)]_vars

C24_Witness ==
  /\ sy["manual"].pc = "done"
  /\ \A d \in Domains : sy["manual"].outcome[d] = "uploaded"
  /\ Len(sy["manual"].reg) = 9
  /\ sy["manual"].reg[1]
  /\ ~sy["manual"].reg[4]
  /\ sp.caller = "button"
  /\ sp.deregCalls = 1
  /\ ~Active
  /\ Len(backend["device_1"].locations) = 1

\* the runs of syncAllData whose location upload to device id succeeds in
\* this step
SyncUploads(id) ==
  { c \in SyncCallers :
      /\ sy[c].pc = "locationPost"
      /\ sy[c].deviceId = id
      /\ sy'[c].outcome["location"] = "uploaded" }

\* the upload of the firing to device id succeeds in this step
FiringUploads(id) ==
  /\ bg.pc = "post"
  /\ bg.deviceId = id
  /\ bg'.pc = "done"
  /\ ~bg'.failed

\* C25: in every step, whatever runs and firings are in progress, the
\* location history of a device keeps every sample it had, unchanged and
\* in place, and grows by exactly the sample of the upload that succeeds in
\* that step, if one does.
C25_OverlapAppendOnly ==
  [][\A id \in DeviceIds :
       LET old == backend[id].locations
           new == backend'[id].locations
           n == Cardinality(SyncUploads(id))
                  + (IF FiringUploads(id) THEN 1 ELSE 0)
       IN /\ n <= 1
          /\ Len(new) = Len(old) + n
          /\ SubSeq(new, 1, Len(old)) = old
          /\ FiringUploads(id) => new[Len(new)] = bg.body[1]
          /\ \A c \in SyncUploads(id) : new[Len(new)] = sy[c].body[1]]_vars

C25_Witness ==
  /\ sy["manual"].pc = "done"
  /\ sy["manual"].outcome["location"] = "uploaded"
  /\ sy["manual"].before["device_1"].locations = << >>
  /\ bg.pc = "done"
  /\ bg.logged = << "sent" >>
  /\ bg.before["device_1"].locations = << >>
  /\ Len(backend["device_1"].locations) = 2
  /\ backend["device_1"].locations[1].latitude
       # backend["device_1"].locations[2].latitude

\* C30: the logout calls stopTracking first and clears the store once it
\* has returned, whether or not the deregistration succeeded; and every
\* upload request, of a run of syncAllData or of a firing, goes out under
\* the device id that is in the store when it goes out.
C30_NoUploadAfterClear ==
  [][/\ (lo = "idle" /\ lo' # "idle") => lo' = "stop" /\ sp'.pc = "query"
     /\ (lo = "stop" /\ lo' # "stop") => sp.pc = "done" /\ lo' = "clear"
     /\ (lo = "clear" /\ lo' # "clear") => storage' = StorageEmpty
     /\ storage' # storage => lo = "clear"
     /\ \A c \in SyncCallers : \A d \in Domains :
          sy'[c].posts[d] > sy[c].posts[d] =>
            sy'[c].body[1].device_id = storage["device_id"]
     /\ bg'.posts > bg.posts =>
          bg'.body[1].device_id = storage["device_id"]]_vars

\* the item carries a geotag: both coordinates are present
Geotagged(item) ==
  item.location_latitude # None /\ item.location_longitude # None

\* C26: the location view of the gallery is the sequence of the geotagged
\* items of the media state, in the state's order, whatever the value of
\* the coordinates; and a change of view leaves the media state as it was.
C26_LocationViewIsGeotagged ==
  [][pa'.screen = "gallery" =>
       /\ getSortedMedia(pa'.media, "location")
            = SelectSeq(pa'.media, Geotagged)
       /\ pa'.sortBy # pa.sortBy => pa'.media = pa.media]_vars

\* C27: in every state of the local store a parent device id is persisted
\* exactly when the persisted role is child.
C27_ParentIdIffChild ==
  ~Falsy(storage["parent_device_id"]) <=> storage["device_mode"] = "child"

\* the pieces of per-child data the screen displays
Displayed(screen) ==
  CASE screen = "dashboard" -> {"current", "history"}
    [] screen = "contacts" -> {"contacts"}
    [] screen = "gallery" -> {"media"}
    [] OTHER -> {}

\* C28: while a child is selected and no fetch is in flight or due, every
\* piece of per-child data on display came from a response for the
\* selected child, or is empty.
C28_DisplayedIsSelected ==
  (ParentIdle /\ ~pa.effectDue /\ pa.selectedChild # None) =>
    \A k \in Displayed(pa.screen) :
      pa[k] = << >> \/ pa.of[k] = pa.selectedChild[1].device_id

\* C29: when a children load has ended, a selected child is one of the
\* children list on display by its device id; and loadData changes the
\* selection only from none to the first child of the list it fetched.
C29_SelectedIsListed ==
  [][/\ (pa'.ld.pc = "done" /\ pa'.selectedChild # None) =>
          \E i \in 1..Len(pa'.children) :
            pa'.children[i].device_id = pa'.selectedChild[1].device_id
     /\ (pa.ld.pc = "get" /\ pa'.selectedChild # pa.selectedChild) =>
          /\ pa.selectedChild = None
          /\ pa'.children # << >>
          /\ pa'.selectedChild = Some(pa'.children[1])]_vars

====
